---- MODULE Spec2Model ----
(***************************************************************************)
(* unoserver: a supervised XML-RPC front-end for a LibreOffice worker.     *)
(*                                                                         *)
(* Three threads of control are modelled, as in src/unoserver/server.py:   *)
(*   - the main thread (main, UnoServer.start, UnoServer.stop and the      *)
(*     signal handler, which Python runs nested on the main thread),       *)
(*   - the serve thread (UnoServer.serve: the two retry loops, the         *)
(*     serve_forever loop and the info/convert/compare handlers),          *)
(*   - the executor thread that runs one engine operation.                 *)
(* The environment is the worker process (it may exit at any time), the    *)
(* RPC clients, the operating system's signals and the outcome of each     *)
(* connection attempt.  One Python statement is one atomic step; a call    *)
(* that blocks (sleep, wait, join, shutdown) is a step of its own, taken    *)
(* when the call returns.  _safe_terminate_process is a procedure of        *)
(* several steps that either thread can be inside.                          *)
(*                                                                         *)
(* Modelled is the POSIX branch (killpg on the worker's process group).    *)
(* Left out: a failing Popen, exceptions other than UnoException in the    *)
(* retry loops, argument parsing, daemon mode and the pid file.            *)
(***************************************************************************)
EXTENDS Integers, Sequences, FiniteSets, TLC

\* ---------------------------------------------------------------- bounds
MaxStopAfter == 2
MaxCalls == 2
MaxSignals == 1

\* ------------------------------------------------------- program constants
InitialAttempts == 20
RefusedCost == 1
OtherCost == 4
RefusedSleep == 2
OtherSleep == 5
StartupWait == 2
ExitClean == 0
ExitDied == 1
ExitStartupFailed == 2

\* Python's None for the integer options (which may be any integer the
\* command line gives, -1 included), and "main() has not returned".
NoneInt == -2

VARIABLES
    \* UnoServer fields
    conversion_timeout,   \* NoneInt or a number of seconds
    stop_after,           \* NoneInt or the request quota, any integer
    libreoffice_process,  \* "None" or "proc": the Popen handle
    xmlrcp_thread,        \* "None", "created", "running", "finished"
    xmlrcp_server,        \* "None" or "server"
    intentional_exit,
    number_of_requests,
    conv,                 \* "None", "live", "disposed": self.conv / its local_context
    comp,                 \* "None", "live"
    \* the worker process and the RPC listener
    worker,               \* "unspawned", "running", "dead"
    reaped,               \* "no"; "collected": waitpid has taken the exited worker
                          \* from the process table; "recorded": and
                          \* Popen.returncode is set
    listener,             \* "unbound", "bound", "closed"
    shutdown_request,     \* socketserver's __shutdown_request
    is_shut_down,         \* socketserver's __is_shut_down event
    \* the main thread: a stack of program positions, innermost frame first
    mstack,
    exitCode,             \* the value main() returned, NoneInt until it returns
    raised,               \* where an uncaught exception came from, or "none"
    pending,              \* where the exception came from that is in flight
                          \* through a finally clause, or "none"
    checked,              \* start() is past its is_alive() check and its return
    signals,              \* signals delivered so far
    \* the serve thread
    spc,                  \* its program position
    sret,                 \* where it goes on after _safe_terminate_process
    attempts,             \* the retry budget of the running phase
    tries,                \* connection attempts made in the running phase
    nRefused,             \* ... of which failed as "Connection refused"
    nOther,               \* ... of which failed otherwise
    slept,                \* time units slept in the running phase
    sleptTotal,           \* time units slept in the retry loops before start() looked
    exhausted,            \* "none", "conv", "comp": the phase that ran out
    everServed,           \* serve_forever has been entered
    \* the call being handled and the executor's future
    calls,                \* calls dispatched so far
    rpcKind,              \* "none", "info", "convert", "compare"
    rpcResult,            \* "none", "pending", "ok", "error", "timeout"
    op,                   \* the future: "none", "running", "ok", "err", "terr"
    opHang,               \* the engine operation in flight never completes on its own
    \* bookkeeping the properties read
    toLog,                \* the steps taken on the timeout path of the last call
    timeoutTaken,
    quotaTriggers,        \* times stop_after() initiated the shutdown
    successes,            \* convert/compare calls that returned a result
    termPath,             \* path the latest _safe_terminate_process run took
    stopReturns,          \* completed runs of stop()
    diedServing,          \* the worker exited on its own while the service served
    stopBase,             \* per run of stop() in progress, innermost first: the
                          \* number of runs that had returned when it began
    pidProbe              \* outcome of main's os.kill(pid, 0), or "none"

cfgVars == <<conversion_timeout, stop_after>>
srvVars == <<libreoffice_process, xmlrcp_thread, xmlrcp_server, intentional_exit,
             number_of_requests, conv, comp>>
envVars == <<worker, reaped, listener, shutdown_request, is_shut_down>>
mainVars ==
    <<mstack, exitCode, raised, pending, checked, signals, pidProbe, stopBase>>
retryVars == <<attempts, tries, nRefused, nOther, slept, sleptTotal, exhausted>>
callVars == <<calls, rpcKind, rpcResult, op, opHang>>
histVars == <<toLog, timeoutTaken, quotaTriggers, successes,
              termPath, stopReturns, diedServing,
              everServed>>
vars == <<cfgVars, srvVars, envVars, mainVars, spc, sret, retryVars, callVars,
          histVars>>

Min(a, b) == IF a < b THEN a ELSE b

\* UnoServer.__init__ (main has parsed its arguments).  Both options are
\* read with type=int and no range check: stop_after is also 0 or negative.
\* The wait for a result may run out whenever the operation still runs, so
\* one value stands for every conversion_timeout that is set.
Init ==
    /\ conversion_timeout \in {NoneInt, 5}
    /\ stop_after \in {NoneInt} \cup (-1..MaxStopAfter)
    /\ libreoffice_process = "None"
    /\ xmlrcp_thread = "None"
    /\ xmlrcp_server = "None"
    /\ intentional_exit = FALSE
    /\ number_of_requests = 0
    /\ conv = "None" /\ comp = "None"
    /\ worker = "unspawned"
    /\ reaped = "no"
    /\ listener = "unbound"
    /\ shutdown_request = FALSE
    /\ is_shut_down = FALSE
    /\ mstack = <<"m_spawn">>
    /\ exitCode = NoneInt
    /\ raised = "none"
    /\ pending = "none"
    /\ checked = FALSE
    /\ signals = 0
    /\ pidProbe = "none"
    /\ spc = "not_started"
    /\ sret = "none"
    /\ attempts = 0 /\ tries = 0 /\ nRefused = 0 /\ nOther = 0
    /\ slept = 0 /\ sleptTotal = 0
    /\ exhausted = "none"
    /\ everServed = FALSE
    /\ calls = 0 /\ rpcKind = "none" /\ rpcResult = "none"
    /\ op = "none" /\ opHang = FALSE
    /\ toLog = <<>>
    /\ timeoutTaken = FALSE
    /\ quotaTriggers = 0 /\ successes = 0
    /\ termPath = "none"
    /\ stopReturns = 0
    /\ diedServing = FALSE
    /\ stopBase = <<>>


\* ------------------------------------------------- _safe_terminate_process
\* Positions inside the routine, one per statement that reads the handle or
\* can be interrupted with a different result:
\*   tp_entry   if self.libreoffice_process is None           (line 139)
\*   tp_poll    if self.libreoffice_process.poll() is not None (142-145)
\*   tp_sigterm os.killpg(os.getpgid(...pid), SIGTERM)          (154)
\*   tp_wait5   self.libreoffice_process.wait(timeout=5)        (155)
\*   tp_warn    except TimeoutExpired: logger.warning           (156-158)
\*   tp_kill    self.libreoffice_process.kill()                 (160)
\*   tp_wait3   self.libreoffice_process.wait(timeout=3)        (161)
\*   tl_force_failed   except Exception: logger.exception       (162-163)
\*   tl_error          except Exception: logger.exception       (164-165)
\*   tp_finally finally: self.libreoffice_process = None        (166-167)
\*   tp_reraise the finally clause on the way of an exception that no
\*              clause of the routine takes                     (166-167)
TerminatePaths == {"graceful", "forced", "force_failed", "error"}
RoutineLabels ==
    {"tp_entry", "tp_poll", "tp_sigterm", "tp_wait5", "tp_warn", "tp_kill",
     "tp_wait3", "tl_force_failed", "tl_error", "tp_finally", "tp_reraise"}

\* A look at the worker finds its return code: it is recorded, or the look
\* itself waits for the exited worker and records it, which takes
\* Popen._waitpid_lock.
CodeKnown(rp, locked, w) == rp = "recorded" \/ (~locked /\ w = "dead")

\* Popen.poll() is None: no return code is recorded yet and either the
\* worker has not exited or the exited worker cannot be waited for, because
\* Popen._waitpid_lock is taken (poll() does not block on the lock).
PollIsNone(rp, locked, w) == ~CodeKnown(rp, locked, w)

\* The state of the return code after a poll().
PollReaps(rp, locked, w) == IF CodeKnown(rp, locked, w) THEN "recorded" ELSE rp

\* Popen.wait(timeout=...): "done" when the return code is or can be
\* recorded, "timeout" when it cannot within the time: the worker still
\* runs, or the lock is with a frame that cannot go on (stuck).  With the
\* lock taken by a frame that is about to record the code there is no
\* outcome yet.
WaitOutcomes(rp, locked, stuck, w) ==
    IF CodeKnown(rp, locked, w) THEN {"done"}
    ELSE IF w = "running" \/ stuck THEN {"timeout"}
    ELSE {}

Out(pc, h, w, rp, path) ==
    [pc |-> pc, h |-> h, w |-> w, rp |-> rp, path |-> path]

\* One step of the routine at position pc, with handle h, worker state w,
\* recorded return code rp and the state of the lock: the set of outcomes,
\* each with the next position ("ret": the routine has returned, "raise":
\* an exception leaves it), the handle, the worker and the path the run is
\* now known to take.  killpg sends SIGTERM also to a worker that has exited
\* and is not yet waited for; getpgid raises ProcessLookupError once waitpid
\* has taken the worker from the process table, recorded or not.  An
\* attribute access on a handle that another run of the routine has cleared
\* meanwhile raises AttributeError: inside the try blocks it is taken by
\* their except clauses, at line 142 it leaves the routine.
safe_terminate_process(pc, h, w, rp, locked, stuck) ==
    CASE pc = "tp_entry" ->
            IF h = "None" THEN {Out("ret", h, w, rp, "absent")}
            ELSE {Out("tp_poll", h, w, rp, "none")}
      [] pc = "tp_poll" ->
            IF h = "None" THEN {Out("raise", h, w, rp, "none")}
            ELSE IF ~PollIsNone(rp, locked, w)
            THEN {Out("ret", "None", w, "recorded", "already_dead")}
            ELSE {Out("tp_sigterm", h, w, rp, "none")}
      [] pc = "tp_sigterm" ->
            IF h = "None" \/ rp # "no" THEN {Out("tl_error", h, w, rp, "none")}
            ELSE {Out("tp_wait5", h, w, rp, "none")}
      [] pc = "tp_wait5" ->
            IF h = "None" THEN {Out("tl_error", h, w, rp, "none")}
            ELSE {IF o = "done" THEN Out("tp_finally", h, w, "recorded", "graceful")
                                ELSE Out("tp_warn", h, w, rp, "none") :
                  o \in WaitOutcomes(rp, locked, stuck, w)}
      [] pc = "tp_warn" -> {Out("tp_kill", h, w, rp, "none")}
      [] pc = "tp_kill" ->
            IF h = "None" THEN {Out("tl_force_failed", h, w, rp, "none")}
            ELSE {Out("tp_wait3", h,
                      IF PollIsNone(rp, locked, w) THEN "dead" ELSE w,
                      PollReaps(rp, locked, w), "none")}
      [] pc = "tp_wait3" ->
            IF h = "None" THEN {Out("tl_force_failed", h, w, rp, "none")}
            ELSE {IF o = "done" THEN Out("tp_finally", h, w, "recorded", "forced")
                                ELSE Out("tl_force_failed", h, w, rp, "none") :
                  o \in WaitOutcomes(rp, locked, stuck, w)}
      [] pc = "tl_force_failed" -> {Out("tp_finally", h, w, rp, "force_failed")}
      [] pc = "tl_error" -> {Out("tp_finally", h, w, rp, "error")}
      [] pc = "tp_reraise" -> {Out("raise", "None", w, rp, "none")}
      [] pc = "tp_finally" -> {Out("ret", "None", w, rp, "none")}
      [] OTHER -> {}

\* Apply one outcome of a step of the routine to the state.
Terminate(r) ==
    /\ libreoffice_process' = r.h
    /\ worker' = r.w
    /\ reaped' = r.rp
    /\ termPath' = IF r.path = "none" THEN termPath ELSE r.path

\* ------------------------------------------------------------ main thread
Top == Head(mstack)

Goto(l) == mstack' = <<l>> \o Tail(mstack)
Call(l, ret) == mstack' = <<l, ret>> \o Tail(mstack)
Return == mstack' = Tail(mstack)

\* Popen._waitpid_lock is taken inside main's process.wait() (line 492),
\* which keeps it while it blocks in waitpid ("m_wait") and until it has
\* recorded the worker's return code ("m_record") - also while a signal
\* handler runs on top of it.
WaitLabels == {"m_wait", "m_record"}
LockHeld == \E i \in 1..Len(mstack) : mstack[i] \in WaitLabels

\* The frames that take an exception coming from a signal handler or a call
\* above them, and where the main thread goes on from there:
\*   stop()'s dummy connection (except Exception: pass);
\*   the try blocks of _safe_terminate_process (except Exception: log);
\*   the except clauses of the routine, which only its finally clause
\*   covers: the handle is cleared and the exception travels on;
\*   the interpreter's wait for the serve thread once main has returned or
\*   raised: the exception is reported as ignored and the process exits.
Catches(l) ==
    l \in {"st_conn", "tp_sigterm", "tp_wait5", "tp_warn", "tp_kill", "tp_wait3",
           "tl_force_failed", "tl_error", "m_final", "crashed", "m_abandon"}
Landing(l) ==
    CASE l = "st_conn" -> "st_join"
      [] l \in {"tp_sigterm", "tp_wait5"} -> "tl_error"
      [] l \in {"tp_kill", "tp_wait3"} -> "tl_force_failed"
      [] l \in {"tp_warn", "tl_force_failed", "tl_error"} -> "tp_reraise"
      [] OTHER -> "m_abandon"

\* An exception travels down the stack of frames to the first one that
\* takes it; if none does, the main thread ends with it.
RECURSIVE Unwind(_)
Unwind(s) ==
    IF s = <<>> THEN <<"crashed">>
    ELSE IF Catches(Head(s)) THEN <<Landing(Head(s))>> \o Tail(s)
    ELSE Unwind(Tail(s))

\* The innermost frame raises.  An exception that no frame takes ends
\* main() without a return value; one that lands where only a finally
\* clause covers it stays in flight and is raised again after the clause.
Crash(why) ==
    LET u == Unwind(Tail(mstack)) IN
    /\ mstack' = u
    /\ raised' = IF u = <<"crashed">> THEN why ELSE raised
    /\ pending' = IF Head(u) = "tp_reraise" THEN why ELSE pending

NoCrash == UNCHANGED <<raised, pending>>

\* The frames of stop() on the stack: a run of stop() is at one of these
\* positions, or inside the routine with "st_ret" to return to.
StopLabels ==
    {"st_begin", "st_waitshut", "st_conn", "st_join", "st_term", "st_poll",
     "st_ret"}
StopFrames(s) == Cardinality({i \in 1..Len(s) : s[i] \in StopLabels})

\* Bookkeeping for every step of the main thread: a run of stop() that
\* begins is noted with the number of runs returned so far, and the runs
\* that return or are left by an exception are dropped.
TrackStops ==
    LET n == StopFrames(mstack)
        m == StopFrames(mstack')
    IN stopBase' = IF m > n THEN <<stopReturns>> \o stopBase
                   ELSE SubSeq(stopBase, n - m + 1, n)

serveSide == <<spc, sret, retryVars, callVars>>

\* start(): Popen, Thread(None, self.serve)
StartSpawn ==
    /\ Top = "m_spawn"
    /\ libreoffice_process' = "proc"
    /\ worker' = "running"
    /\ xmlrcp_thread' = "created"
    /\ Goto("m_handlers")
    /\ UNCHANGED <<cfgVars, xmlrcp_server, intentional_exit, number_of_requests,
                   conv, comp, reaped, listener, shutdown_request, is_shut_down,
                   exitCode, raised, pending, checked, signals, pidProbe,
                   serveSide, histVars>>
    /\ TrackStops

\* start(): signal.signal(SIGTERM / SIGINT / SIGHUP, signal_handler)
StartHandlers ==
    /\ Top = "m_handlers"
    /\ Goto("m_sleep5")
    /\ UNCHANGED <<cfgVars, srvVars, envVars, exitCode, raised, pending, checked, signals,
                   pidProbe, serveSide, histVars>>
    /\ TrackStops

\* start(): time.sleep(5); self.xmlrcp_thread.start()
StartThread ==
    /\ Top = "m_sleep5"
    /\ xmlrcp_thread' = "running"
    /\ spc' = "bind"
    /\ Goto("m_sleep2")
    /\ UNCHANGED <<cfgVars, libreoffice_process, xmlrcp_server, intentional_exit,
                   number_of_requests, conv, comp, envVars,
                   exitCode, raised, pending, checked, signals, pidProbe,
                   sret, retryVars, callVars, histVars>>
    /\ TrackStops

\* start(): time.sleep(2); if not is_alive(): stop(); return None
StartCheck ==
    /\ Top = "m_sleep2"
    /\ IF xmlrcp_thread = "finished"
       THEN checked' = TRUE /\ Call("st_begin", "m_ret2")
       ELSE checked' = checked /\ Goto("m_started")
    /\ UNCHANGED <<cfgVars, srvVars, envVars, exitCode, raised, pending, signals, pidProbe, serveSide, histVars>>
    /\ TrackStops

\* start(): return self.libreoffice_process, the field as it is now, right
\* after the look at the thread; main(): if process is None: return 2
StartReturn ==
    /\ Top = "m_started"
    /\ checked' = TRUE
    /\ IF libreoffice_process = "None" THEN Goto("m_ret2") ELSE Goto("m_prewait")
    /\ UNCHANGED <<cfgVars, srvVars, envVars, exitCode, raised, pending, signals,
                   pidProbe, serveSide, histVars>>
    /\ TrackStops

\* main(): pid = process.pid, the log line and the pid file; then
\* process.wait() is entered.  With the return code recorded it returns at
\* once, without the lock, and server.stop() follows; otherwise it takes the
\* lock and blocks in waitpid.
MainEnterWait ==
    /\ Top = "m_prewait"
    /\ IF reaped = "recorded" THEN Call("st_begin", "m_probe") ELSE Goto("m_wait")
    /\ UNCHANGED <<cfgVars, srvVars, envVars, exitCode, raised, pending, checked, signals,
                   pidProbe, serveSide, histVars>>
    /\ TrackStops

\* main(): return 2
MainReturn2 ==
    /\ Top = "m_ret2"
    /\ exitCode' = ExitStartupFailed
    /\ mstack' = <<"m_final">>
    /\ UNCHANGED <<cfgVars, srvVars, envVars, raised, pending, checked, signals, pidProbe, serveSide, histVars>>
    /\ TrackStops

\* main(): inside process.wait(), os.waitpid returns once the worker has
\* exited and takes it from the process table.
MainWait ==
    /\ Top = "m_wait"
    /\ worker = "dead"
    /\ reaped' = "collected"
    /\ Goto("m_record")
    /\ UNCHANGED <<cfgVars, srvVars, worker, listener, shutdown_request,
                   is_shut_down, exitCode, raised, pending, checked, signals,
                   pidProbe, serveSide, histVars>>
    /\ TrackStops

\* main(): process.wait() records the return code, gives the lock back and
\* returns; server.stop()
MainWaitReturn ==
    /\ Top = "m_record"
    /\ reaped' = "recorded"
    /\ Call("st_begin", "m_probe")
    /\ UNCHANGED <<cfgVars, srvVars, worker, listener, shutdown_request,
                   is_shut_down, exitCode, raised, pending, checked, signals,
                   pidProbe, serveSide, histVars>>
    /\ TrackStops

\* main(): os.kill(pid, 0) and the exit code main() returns.  The worker has
\* been reaped, so the probe fails with ESRCH unless the pid was taken by
\* another process, which the caller may ("exists") or may not ("eperm")
\* signal.
ProbeOutcomes == {"esrch", "exists", "eperm"}

MainProbe ==
    /\ Top = "m_probe"
    /\ \E o \in ProbeOutcomes :
        /\ pidProbe' = o
        /\ IF o = "eperm"
           THEN Crash("main") /\ exitCode' = exitCode
           ELSE /\ mstack' = <<"m_final">>
                /\ NoCrash
                /\ exitCode' = IF o = "esrch" THEN ExitClean
                               ELSE IF intentional_exit THEN ExitClean ELSE ExitDied
    /\ UNCHANGED <<cfgVars, srvVars, envVars, checked, signals, serveSide, histVars>>
    /\ TrackStops

\* main() has returned or raised (lines 518-519 call it and do nothing with
\* the value it returns): the interpreter waits for the serve thread, which
\* is no daemon, and the process ends.  After an exception that was reported
\* as ignored during that wait the process ends at once, and the serve
\* thread with it.
MainExit ==
    /\ Top \in {"m_final", "crashed", "m_abandon"}
    /\ Top # "m_abandon" => xmlrcp_thread # "running"
    /\ mstack' = <<"exited">>
    /\ spc' = IF xmlrcp_thread = "running" THEN "gone" ELSE spc
    /\ UNCHANGED <<cfgVars, srvVars, envVars, exitCode, raised, pending, checked, signals,
                   pidProbe, sret, retryVars, callVars, histVars>>
    /\ TrackStops

\* ------------------------------------------------------------------ stop()
\* if self.xmlrcp_server is not None: self.xmlrcp_server.shutdown() ...
StopBegin ==
    /\ Top = "st_begin"
    /\ IF xmlrcp_server # "None"
       THEN shutdown_request' = TRUE /\ Goto("st_waitshut")
       ELSE shutdown_request' = shutdown_request /\ Goto("st_join")
    /\ UNCHANGED <<cfgVars, srvVars, worker, reaped, listener, is_shut_down,
                   exitCode, raised, pending, checked, signals, pidProbe,
                   serveSide, histVars>>
    /\ TrackStops

\* shutdown() returns once the serve_forever loop has ended.
StopWaitShutdown ==
    /\ Top = "st_waitshut"
    /\ is_shut_down
    /\ Goto("st_conn")
    /\ UNCHANGED <<cfgVars, srvVars, envVars, exitCode, raised, pending, checked, signals,
                   pidProbe, serveSide, histVars>>
    /\ TrackStops

\* try: with socket.create_connection(...): pass / except Exception: pass
StopDummyConnection ==
    /\ Top = "st_conn"
    /\ Goto("st_join")
    /\ UNCHANGED <<cfgVars, srvVars, envVars, exitCode, raised, pending, checked, signals,
                   pidProbe, serveSide, histVars>>
    /\ TrackStops

\* if self.xmlrcp_thread is not None: self.xmlrcp_thread.join()
StopJoin ==
    /\ Top = "st_join"
    /\ xmlrcp_thread \in {"None", "created", "finished"}
    /\ IF xmlrcp_thread = "created"
       THEN Crash("stop")
       ELSE Goto("st_term") /\ NoCrash
    /\ UNCHANGED <<cfgVars, srvVars, envVars, exitCode, checked, signals,
                   pidProbe, serveSide, histVars>>
    /\ TrackStops

\* Variant of StopPoll that returns without the termination routine.
StopPollSkipsRoutine ==
    /\ Top = "st_poll"
    /\ IF libreoffice_process = "None"
       THEN Crash("stop") /\ UNCHANGED reaped
       ELSE /\ Goto("st_ret")
            /\ reaped' = PollReaps(reaped, LockHeld, worker)
            /\ NoCrash
    /\ UNCHANGED <<cfgVars, srvVars, worker, listener, shutdown_request,
                   is_shut_down, exitCode, checked, signals, pidProbe,
                   serveSide, histVars>>
    /\ TrackStops

\* Variant of StopTerminate without the truthiness test on the handle.
StopTerminateUnguarded ==
    /\ Top = "st_term"
    /\ Goto("st_poll")
    /\ UNCHANGED <<cfgVars, srvVars, envVars, exitCode, raised, pending, checked, signals,
                   pidProbe, serveSide, histVars>>
    /\ TrackStops

\* if self.libreoffice_process and ...: the first look at the handle
StopTerminate ==
    /\ Top = "st_term"
    /\ IF libreoffice_process # "None" THEN Goto("st_poll") ELSE Goto("st_ret")
    /\ UNCHANGED <<cfgVars, srvVars, envVars, exitCode, raised, pending, checked, signals,
                   pidProbe, serveSide, histVars>>
    /\ TrackStops

\* ... and self.libreoffice_process.poll() is None:
\*     self._safe_terminate_process()
\* The second look at the handle; the attribute access raises when the
\* handle was cleared since the first.
StopPoll ==
    /\ Top = "st_poll"
    /\ IF libreoffice_process = "None"
       THEN Crash("stop") /\ UNCHANGED reaped
       ELSE /\ IF PollIsNone(reaped, LockHeld, worker)
               THEN Call("tp_entry", "st_ret")
               ELSE Goto("st_ret")
            /\ reaped' = PollReaps(reaped, LockHeld, worker)
            /\ NoCrash
    /\ UNCHANGED <<cfgVars, srvVars, worker, listener, shutdown_request,
                   is_shut_down, exitCode, checked, signals, pidProbe,
                   serveSide, histVars>>
    /\ TrackStops

\* stop() returns.
StopReturn ==
    /\ Top = "st_ret"
    /\ Return
    /\ stopReturns' = stopReturns + 1
    /\ UNCHANGED <<cfgVars, srvVars, envVars, exitCode, raised, pending, checked, signals,
                   pidProbe, serveSide,
                   toLog, timeoutTaken, quotaTriggers, successes,
                   termPath, diedServing, everServed>>
    /\ TrackStops

\* One step of _safe_terminate_process on the main thread.  When the lock
\* is taken, it is taken by a frame beneath this one, which cannot go on.
\* What leaves the routine after its finally clause is the exception that
\* was in flight; at line 142 it is the routine's own AttributeError.
MainTerminate ==
    /\ Top \in RoutineLabels
    /\ \E r \in safe_terminate_process(Top, libreoffice_process, worker, reaped,
                                       LockHeld, TRUE) :
        /\ Terminate(r)
        /\ CASE r.pc = "ret" -> Return /\ NoCrash
             [] r.pc = "raise" ->
                    Crash(IF Top = "tp_reraise" THEN pending ELSE "routine")
             [] OTHER -> Goto(r.pc) /\ NoCrash
    /\ UNCHANGED <<cfgVars, xmlrcp_thread, xmlrcp_server, intentional_exit,
                   number_of_requests, conv, comp, listener, shutdown_request,
                   is_shut_down, exitCode, checked, signals, pidProbe,
                   serveSide, toLog, timeoutTaken, quotaTriggers, successes,
                   stopReturns, diedServing, everServed>>
    /\ TrackStops

\* ---------------------------------------------------------- signal_handler
\* SIGTERM / SIGINT / SIGHUP arrives once the handlers are installed: Python
\* runs the handler on the main thread, on top of whatever the main thread
\* was doing - also once main() has returned or raised and the interpreter
\* waits for the serve thread.
SignalArrives ==
    /\ Top \notin {"m_spawn", "m_handlers", "exited", "killed"}
    /\ signals < MaxSignals
    /\ signals' = signals + 1
    /\ mstack' = <<"sg_entry">> \o mstack
    /\ UNCHANGED <<cfgVars, srvVars, envVars, exitCode, raised, pending, checked, pidProbe, serveSide, histVars>>
    /\ TrackStops

\* The signal arrives after Popen and before signal.signal: its default
\* action ends the front-end there (KeyboardInterrupt for SIGINT).
SignalDefault ==
    /\ Top = "m_handlers"
    /\ signals < MaxSignals
    /\ signals' = signals + 1
    /\ mstack' = <<"killed">>
    /\ UNCHANGED <<cfgVars, srvVars, envVars, exitCode, raised, pending, checked, pidProbe, serveSide, histVars>>
    /\ TrackStops

\* self.intentional_exit = True; self.libreoffice_process.send_signal(signum)
\* With the handle cleared the attribute lookup on None raises
\* AttributeError, which the except clause does not catch.  send_signal
\* polls first and signals the worker unless its return code is recorded.
SignalForward ==
    /\ Top = "sg_entry"
    /\ intentional_exit' = TRUE
    /\ IF libreoffice_process = "None"
       THEN Crash("signal_handler") /\ UNCHANGED reaped
       ELSE /\ Goto("sg_stop")
            /\ NoCrash
            /\ reaped' = PollReaps(reaped, LockHeld, worker)
    /\ UNCHANGED <<cfgVars, libreoffice_process, xmlrcp_thread, xmlrcp_server,
                   number_of_requests, conv, comp, worker, listener,
                   shutdown_request, is_shut_down, exitCode, checked,
                   signals, pidProbe, serveSide, histVars>>
    /\ TrackStops

\* if self.xmlrcp_server is not None: self.stop()
SignalStop ==
    /\ Top = "sg_stop"
    /\ IF xmlrcp_server # "None"
       THEN Goto("st_begin")
       ELSE Return
    /\ UNCHANGED <<cfgVars, srvVars, envVars, exitCode, raised, pending, checked, signals,
                   pidProbe, serveSide, histVars>>
    /\ TrackStops

MainThread ==
    \/ StartSpawn \/ StartHandlers \/ StartThread \/ StartCheck \/ StartReturn
    \/ MainReturn2 \/ MainEnterWait \/ MainWait \/ MainWaitReturn \/ MainProbe
    \/ MainExit
    \/ StopBegin \/ StopWaitShutdown \/ StopDummyConnection \/ StopJoin
    \/ StopTerminate \/ StopPoll \/ StopReturn \/ MainTerminate
    \/ SignalForward \/ SignalStop

\* ------------------------------------------------ serve(): the retry loops
\* One pass of the UnoConverter loop's except clause: the budget left and
\* the time slept after a failure of the given class.
ConverterFailure(a, class) ==
    IF class = "refused"
    THEN [attempts |-> a - RefusedCost, sleep |-> RefusedSleep]
    ELSE [attempts |-> a - OtherCost, sleep |-> OtherSleep]

\* Variant of ComparerFailure that charges every failure alike.
ComparerFailureFlatCost(a, class) ==
    IF class = "refused"
    THEN [attempts |-> a - RefusedCost, sleep |-> RefusedSleep]
    ELSE [attempts |-> a - RefusedCost, sleep |-> OtherSleep]

\* The same for the UnoComparer loop.
ComparerFailure(a, class) ==
    IF class = "refused"
    THEN [attempts |-> a - RefusedCost, sleep |-> RefusedSleep]
    ELSE [attempts |-> a - OtherCost, sleep |-> OtherSleep]

\* Variant of LoopContinues that is off by one: while attempts >= 0.
LoopContinuesInclusive(a) == a >= 0

\* while attempts > 0
LoopContinues(a) == a > 0

AttemptOutcomes == {"ok", "refused", "other"}

\* start() looks at the thread StartupWait time units after starting it, so
\* the thread cannot have slept for longer than that before the look.
SleepAllowed(d) == checked \/ sleptTotal + d <= StartupWait

Account(class, r) ==
    /\ attempts' = r.attempts
    /\ tries' = tries + 1
    /\ nRefused' = nRefused + (IF class = "refused" THEN 1 ELSE 0)
    /\ nOther' = nOther + (IF class = "refused" THEN 0 ELSE 1)
    /\ slept' = slept + r.sleep
    /\ sleptTotal' = IF checked THEN sleptTotal
                     ELSE Min(sleptTotal + r.sleep, StartupWait + 1)

NextPhase ==
    /\ attempts' = InitialAttempts
    /\ tries' = 0 /\ nRefused' = 0 /\ nOther' = 0 /\ slept' = 0
    /\ sleptTotal' = sleptTotal

\* with XMLRPCServer(...) as server: binding may fail, which ends the thread.
ServeBind ==
    /\ spc = "bind"
    /\ \/ /\ listener' = "bound"
          /\ spc' = "conv"
          /\ attempts' = InitialAttempts
          /\ UNCHANGED xmlrcp_thread
       \/ /\ listener' = "unbound"
          /\ spc' = "done"
          /\ xmlrcp_thread' = "finished"
          /\ UNCHANGED attempts
    /\ UNCHANGED <<cfgVars, libreoffice_process, xmlrcp_server, intentional_exit,
                   number_of_requests, conv, comp, worker, shutdown_request,
                   reaped, is_shut_down, mainVars, sret, tries, nRefused, nOther,
                   slept, sleptTotal, exhausted, callVars, histVars>>

\* One iteration of the UnoConverter loop.
ConverterAttempt ==
    /\ spc = "conv"
    /\ LoopContinues(attempts)
    /\ \E o \in AttemptOutcomes :
        IF o = "ok"
        THEN /\ worker = "running"
             /\ conv' = "live"
             /\ spc' = "comp"
             /\ NextPhase
        ELSE LET r == ConverterFailure(attempts, o) IN
             /\ SleepAllowed(r.sleep)
             /\ Account(o, r)
             /\ UNCHANGED <<conv, spc>>
    /\ UNCHANGED <<cfgVars, libreoffice_process, xmlrcp_thread, xmlrcp_server,
                   intentional_exit, number_of_requests, comp, envVars, mainVars,
                   sret, exhausted, callVars, histVars>>

\* Variant of ConverterExhausted without the return: after the routine the
\* thread goes on to the UnoComparer loop.
ConverterExhaustedFallsThrough ==
    /\ spc = "conv"
    /\ ~LoopContinues(attempts)
    /\ exhausted' = "conv"
    /\ spc' = "tp_entry"
    /\ sret' = "comp"
    /\ UNCHANGED <<cfgVars, srvVars, envVars, mainVars, attempts, tries, nRefused,
                   nOther, slept, sleptTotal, callVars,
                   toLog, timeoutTaken, quotaTriggers, successes,
                   termPath, stopReturns, diedServing,
                   everServed>>

\* The while loop's else clause: self._safe_terminate_process(), and then
\* the return.
ConverterExhausted ==
    /\ spc = "conv"
    /\ ~LoopContinues(attempts)
    /\ exhausted' = "conv"
    /\ spc' = "tp_entry"
    /\ sret' = "exh_ret"
    /\ UNCHANGED <<cfgVars, srvVars, envVars, mainVars, attempts, tries, nRefused,
                   nOther, slept, sleptTotal, callVars,
                   toLog, timeoutTaken, quotaTriggers, successes,
                   termPath, stopReturns, diedServing,
                   everServed>>

\* One iteration of the UnoComparer loop.
ComparerAttempt ==
    /\ spc = "comp"
    /\ LoopContinues(attempts)
    /\ \E o \in AttemptOutcomes :
        IF o = "ok"
        THEN /\ worker = "running"
             /\ comp' = "live"
             /\ spc' = "publish"
             /\ NextPhase
        ELSE LET r == ComparerFailure(attempts, o) IN
             /\ SleepAllowed(r.sleep)
             /\ Account(o, r)
             /\ UNCHANGED <<comp, spc>>
    /\ UNCHANGED <<cfgVars, libreoffice_process, xmlrcp_thread, xmlrcp_server,
                   intentional_exit, number_of_requests, conv, envVars, mainVars,
                   sret, exhausted, callVars, histVars>>

\* Variant of ComparerExhausted without the return: after the routine the
\* thread goes on to publish the server.
ComparerExhaustedFallsThrough ==
    /\ spc = "comp"
    /\ ~LoopContinues(attempts)
    /\ exhausted' = "comp"
    /\ spc' = "tp_entry"
    /\ sret' = "publish"
    /\ UNCHANGED <<cfgVars, srvVars, envVars, mainVars, attempts, tries, nRefused,
                   nOther, slept, sleptTotal, callVars,
                   toLog, timeoutTaken, quotaTriggers, successes,
                   termPath, stopReturns, diedServing,
                   everServed>>

\* The else clause of the UnoComparer loop, as ConverterExhausted.
ComparerExhausted ==
    /\ spc = "comp"
    /\ ~LoopContinues(attempts)
    /\ exhausted' = "comp"
    /\ spc' = "tp_entry"
    /\ sret' = "exh_ret"
    /\ UNCHANGED <<cfgVars, srvVars, envVars, mainVars, attempts, tries, nRefused,
                   nOther, slept, sleptTotal, callVars,
                   toLog, timeoutTaken, quotaTriggers, successes,
                   termPath, stopReturns, diedServing,
                   everServed>>

\* return from serve() in an else clause: the with block closes the
\* listener and the thread ends.
ExhaustedReturn ==
    /\ spc = "exh_ret"
    /\ listener' = "closed"
    /\ xmlrcp_thread' = "finished"
    /\ spc' = "done"
    /\ UNCHANGED <<cfgVars, libreoffice_process, xmlrcp_server, intentional_exit,
                   number_of_requests, conv, comp, worker, reaped,
                   shutdown_request, is_shut_down, mainVars, sret, retryVars,
                   callVars, histVars>>

\* Where the serve thread goes on when an exception leaves the routine:
\* out of a handler the caller gets the error instead of the timeout or the
\* result; out of serve() the with block closes the listener and the thread
\* ends, as on the return.
Fault(ret) ==
    CASE ret = "cv_raise" -> "cv_fault"
      [] ret = "cp_raise" -> "cp_fault"
      [] ret = "sa_ret" -> "sa_fault"
      [] OTHER -> "exh_ret"

\* One step of _safe_terminate_process on the serve thread.  The lock, when
\* taken, is with main's process.wait(), which cannot go on while a signal
\* handler runs on top of it.
ServeTerminate ==
    /\ spc \in RoutineLabels
    /\ \E r \in safe_terminate_process(spc, libreoffice_process, worker, reaped,
                                       LockHeld, Top \notin WaitLabels) :
        /\ Terminate(r)
        /\ spc' = CASE r.pc = "ret" -> sret
                     [] r.pc = "raise" -> Fault(sret)
                     [] OTHER -> r.pc
        /\ sret' = IF r.pc \in {"ret", "raise"} THEN "none" ELSE sret
    /\ UNCHANGED <<cfgVars, xmlrcp_thread, xmlrcp_server, intentional_exit,
                   number_of_requests, conv, comp, listener, shutdown_request,
                   is_shut_down, mainVars, retryVars, callVars,
                   toLog, timeoutTaken, quotaTriggers, successes,
                   stopReturns, diedServing, everServed>>

\* self.xmlrcp_server = server; self.number_of_requests = 0; registrations
\* (the retry loops are over, and with them their sleeps)
ServePublish ==
    /\ spc = "publish"
    /\ xmlrcp_server' = "server"
    /\ number_of_requests' = 0
    /\ spc' = "enter"
    /\ sleptTotal' = 0
    /\ UNCHANGED <<cfgVars, libreoffice_process, xmlrcp_thread, intentional_exit,
                   conv, comp, envVars, mainVars, sret, attempts, tries, nRefused,
                   nOther, slept, exhausted, callVars, histVars>>

\* server.serve_forever() begins: it clears the is-shut-down event.
ServeForever ==
    /\ spc = "enter"
    /\ is_shut_down' = FALSE
    /\ everServed' = TRUE
    /\ spc' = "loop"
    /\ UNCHANGED <<cfgVars, srvVars, worker, reaped, listener, shutdown_request,
                   mainVars, sret, retryVars, callVars, toLog, timeoutTaken,
                   quotaTriggers, successes, termPath, stopReturns, diedServing>>

\* serve_forever() sees the shutdown request between two requests; its
\* finally clause takes the request back and sets the event, which lets
\* shutdown() return.
ServeLoopExit ==
    /\ spc = "loop"
    /\ shutdown_request
    /\ shutdown_request' = FALSE
    /\ is_shut_down' = TRUE
    /\ spc' = "closing"
    /\ UNCHANGED <<cfgVars, srvVars, worker, reaped, listener, mainVars, sret,
                   retryVars, callVars, histVars>>

\* serve_forever() has returned: the with block closes the listener and the
\* thread ends.
ServeClose ==
    /\ spc = "closing"
    /\ listener' = "closed"
    /\ xmlrcp_thread' = "finished"
    /\ spc' = "done"
    /\ UNCHANGED <<cfgVars, libreoffice_process, xmlrcp_server, intentional_exit,
                   number_of_requests, conv, comp, worker, reaped,
                   shutdown_request, is_shut_down, mainVars, sret, retryVars,
                   callVars, histVars>>

\* ------------------------------------------------- serve(): the handlers
\* The loop takes a request only while no shutdown has been requested.
Accepting == spc = "loop" /\ ~shutdown_request /\ calls < MaxCalls

EngineUp == worker = "running"

\* Variant of QuotaReached that fires on every call up to the quota.
QuotaReachedEarly(n, limit) == n <= limit

\* if self.number_of_requests == self.stop_after
QuotaReached(n, limit) == n = limit

\* stop_after(), called with the result of a convert or compare: the
\* counter, the test and the flag; when the quota is reached the thread
\* enters _safe_terminate_process and returns the result after it.
StopAfter ==
    IF stop_after = NoneInt
    THEN /\ UNCHANGED <<number_of_requests, intentional_exit, quotaTriggers,
                        sret>>
         /\ spc' = "loop"
    ELSE /\ number_of_requests' = number_of_requests + 1
         /\ IF QuotaReached(number_of_requests + 1, stop_after)
            THEN /\ intentional_exit' = TRUE
                 /\ quotaTriggers' = quotaTriggers + 1
                 /\ spc' = "tp_entry"
                 /\ sret' = "sa_ret"
            ELSE /\ UNCHANGED <<intentional_exit, quotaTriggers, sret>>
                 /\ spc' = "loop"

\* The branches that do not call stop_after().
NoStopAfter ==
    /\ UNCHANGED <<number_of_requests, intentional_exit, quotaTriggers,
                   sret>>
    /\ spc' = "loop"

\* info() is dispatched: the serve thread is inside the handler, which
\* queries the converter's filter catalogues over the bridge.
InfoCall ==
    /\ Accepting
    /\ calls' = calls + 1
    /\ rpcKind' = "info"
    /\ rpcResult' = "pending"
    /\ spc' = "in_info"
    /\ toLog' = <<>>
    /\ UNCHANGED <<cfgVars, srvVars, envVars, mainVars, sret, retryVars, op,
                   opHang, timeoutTaken, quotaTriggers, successes,
                   termPath, stopReturns, diedServing,
                   everServed>>

\* Variant of InfoReturn that calls stop_after() like convert and compare.
InfoReturnCounted ==
    /\ spc = "in_info"
    /\ \E res \in {"ok", "error"} :
        /\ res = "ok" => (EngineUp /\ conv = "live")
        /\ rpcResult' = res
    /\ StopAfter
    /\ UNCHANGED <<cfgVars, libreoffice_process, xmlrcp_thread, xmlrcp_server,
                   conv, comp, envVars, mainVars, retryVars, calls, rpcKind, op,
                   opHang, toLog, timeoutTaken, successes, termPath,
                   stopReturns, diedServing, everServed>>

\* info(): the engine calls return or fail, and the handler returns the
\* catalogue or the error.
InfoReturn ==
    /\ spc = "in_info"
    /\ \E res \in {"ok", "error"} :
        /\ res = "ok" => (EngineUp /\ conv = "live")
        /\ rpcResult' = res
    /\ spc' = "loop"
    /\ UNCHANGED <<cfgVars, srvVars, envVars, mainVars, sret, retryVars, calls,
                   rpcKind, op, opHang, histVars>>

\* convert(): executor.submit(self.conv.convert, ...)
ConvertCall ==
    /\ Accepting
    /\ calls' = calls + 1
    /\ rpcKind' = "convert"
    /\ rpcResult' = "pending"
    /\ op' = "running"
    /\ opHang' \in BOOLEAN
    /\ spc' = "cv_wait"
    /\ toLog' = <<>>
    /\ UNCHANGED <<cfgVars, srvVars, envVars, mainVars, sret, retryVars,
                   timeoutTaken, quotaTriggers, successes, termPath,
                   stopReturns, diedServing, everServed>>

\* The handler's future.result(...) has returned a result or re-raised an
\* error that is no TimeoutError: stop_after() after a result, and the
\* return or the error unless stop_after() has entered the routine.
HandleResult ==
    /\ IF op = "ok"
       THEN /\ StopAfter
            /\ successes' = successes + 1
       ELSE /\ NoStopAfter
            /\ UNCHANGED successes
    /\ rpcResult' = IF spc' # "loop" THEN rpcResult
                    ELSE IF op = "ok" THEN "ok" ELSE "error"
    /\ op' = IF spc' # "loop" THEN op ELSE "none"
    /\ opHang' = FALSE

\* convert(): future.result(...) returns or re-raises the operation's error
ConvertResult ==
    /\ spc = "cv_wait"
    /\ op \in {"ok", "err"}
    /\ HandleResult
    /\ UNCHANGED <<cfgVars, libreoffice_process, xmlrcp_thread, xmlrcp_server,
                   conv, comp, envVars, mainVars, retryVars, calls, rpcKind,
                   toLog, timeoutTaken, termPath, stopReturns, diedServing, everServed>>

\* stop_after() has returned from the routine: return result; or the
\* caller gets the exception that left the routine.
ResultReturn ==
    /\ spc \in {"sa_ret", "sa_fault"}
    /\ rpcResult' = IF spc = "sa_ret" THEN "ok" ELSE "error"
    /\ op' = "none"
    /\ opHang' = FALSE
    /\ spc' = "loop"
    /\ UNCHANGED <<cfgVars, srvVars, envVars, mainVars, sret, retryVars, calls,
                   rpcKind, histVars>>

\* except futures.TimeoutError, which is the builtin TimeoutError: the wait
\* for the result ran out of time, or the operation itself raised one.
TimeoutErrorCaught == op = "terr" \/ (op = "running" /\ conversion_timeout # NoneInt)

\* convert(): the except clause, self.conv.local_context.dispose()
ConvertTimeout ==
    /\ spc = "cv_wait"
    /\ TimeoutErrorCaught
    /\ conv' = "disposed"
    /\ timeoutTaken' = TRUE
    /\ toLog' = Append(toLog, "dispose")
    /\ spc' = "cv_term"
    /\ UNCHANGED <<cfgVars, libreoffice_process, xmlrcp_thread, xmlrcp_server,
                   intentional_exit, number_of_requests, comp, envVars, mainVars,
                   sret, retryVars, callVars, quotaTriggers, successes, termPath, stopReturns,
                   diedServing, everServed>>

\* Variant of ConvertTerminate that leaves the worker alone.
ConvertTerminateSkipped ==
    /\ spc = "cv_term"
    /\ toLog' = Append(toLog, "terminate")
    /\ spc' = "cv_raise"
    /\ UNCHANGED <<cfgVars, srvVars, envVars, mainVars, sret, retryVars, callVars,
                   timeoutTaken, quotaTriggers, successes, termPath,
                   stopReturns, diedServing, everServed>>

\* convert(): self._safe_terminate_process() on the timeout path
ConvertTerminate ==
    /\ spc = "cv_term"
    /\ toLog' = Append(toLog, "terminate")
    /\ spc' = "tp_entry"
    /\ sret' = "cv_raise"
    /\ UNCHANGED <<cfgVars, srvVars, envVars, mainVars, retryVars, callVars,
                   timeoutTaken, quotaTriggers, successes, termPath,
                   stopReturns, diedServing, everServed>>

\* convert(): raise; leaving the with block joins the executor's thread, and
\* the timeout error (or the exception that left the routine) then reaches
\* the RPC caller.
ConvertRaise ==
    /\ spc \in {"cv_raise", "cv_fault"}
    /\ op # "running"
    /\ rpcResult' = IF spc = "cv_raise" THEN "timeout" ELSE "error"
    /\ toLog' = IF spc = "cv_raise" THEN Append(toLog, "raise") ELSE toLog
    /\ op' = "none"
    /\ spc' = "loop"
    /\ UNCHANGED <<cfgVars, opHang, srvVars, envVars, mainVars, sret, retryVars, calls,
                   rpcKind, timeoutTaken, quotaTriggers, successes, termPath, stopReturns,
                   diedServing, everServed>>

\* compare(): executor.submit(self.comp.compare, ...) inside the with block
CompareCall ==
    /\ Accepting
    /\ calls' = calls + 1
    /\ rpcKind' = "compare"
    /\ rpcResult' = "pending"
    /\ op' = "running"
    /\ opHang' \in BOOLEAN
    /\ spc' = "cp_exit"
    /\ toLog' = <<>>
    /\ UNCHANGED <<cfgVars, srvVars, envVars, mainVars, sret, retryVars,
                   timeoutTaken, quotaTriggers, successes, termPath,
                   stopReturns, diedServing, everServed>>

\* compare(): the with block ends right after submit, and leaving it joins
\* the executor's thread: the handler waits here for the operation to end.
CompareExecutorExit ==
    /\ spc = "cp_exit"
    /\ op # "running"
    /\ spc' = "cp_result"
    /\ UNCHANGED <<cfgVars, srvVars, envVars, mainVars, sret, retryVars, callVars,
                   histVars>>

\* compare(): future.result(timeout=...) on the finished future, and the
\* else clause or the re-raised error.
CompareResult ==
    /\ spc = "cp_result"
    /\ op \in {"ok", "err"}
    /\ HandleResult
    /\ UNCHANGED <<cfgVars, libreoffice_process, xmlrcp_thread, xmlrcp_server,
                   conv, comp, envVars, mainVars, retryVars, calls, rpcKind,
                   toLog, timeoutTaken, termPath, stopReturns, diedServing, everServed>>

\* compare(): the except clause: self.conv.local_context.dispose() and
\* self._safe_terminate_process()
CompareTimeout ==
    /\ spc = "cp_result"
    /\ TimeoutErrorCaught
    /\ conv' = "disposed"
    /\ timeoutTaken' = TRUE
    /\ toLog' = <<"dispose", "terminate">>
    /\ spc' = "tp_entry"
    /\ sret' = "cp_raise"
    /\ UNCHANGED <<cfgVars, libreoffice_process, xmlrcp_thread, xmlrcp_server,
                   intentional_exit, number_of_requests, comp, envVars, mainVars,
                   retryVars, callVars, quotaTriggers, successes, termPath, stopReturns,
                   diedServing, everServed>>

\* compare(): raise
CompareRaise ==
    /\ spc \in {"cp_raise", "cp_fault"}
    /\ rpcResult' = IF spc = "cp_raise" THEN "timeout" ELSE "error"
    /\ toLog' = IF spc = "cp_raise" THEN Append(toLog, "raise") ELSE toLog
    /\ op' = "none"
    /\ spc' = "loop"
    /\ UNCHANGED <<cfgVars, opHang, srvVars, envVars, mainVars, sret, retryVars, calls,
                   rpcKind, timeoutTaken, quotaTriggers, successes, termPath, stopReturns,
                   diedServing, everServed>>

ServeThread ==
    \/ ServeBind \/ ConverterAttempt \/ ConverterExhausted
    \/ ComparerAttempt \/ ComparerExhausted \/ ExhaustedReturn
    \/ ServeTerminate
    \/ ServePublish \/ ServeForever \/ ServeLoopExit \/ ServeClose
    \/ InfoReturn \/ ConvertResult \/ ResultReturn
    \/ ConvertTimeout \/ ConvertTerminate \/ ConvertRaise
    \/ CompareExecutorExit \/ CompareResult \/ CompareTimeout \/ CompareRaise

Clients == InfoCall \/ ConvertCall \/ CompareCall

\* ------------------------------------------------------------- environment
\* The engine operation on the executor's thread ends: with a result, an
\* error or a TimeoutError of its own ("terr") while the worker lives and
\* the session is intact (unless it hangs), with an error once the worker
\* is gone or the session was disposed.
SessionLost ==
    \/ worker # "running"
    \/ rpcKind = "convert" /\ conv = "disposed"

OperationEnds ==
    /\ op = "running"
    /\ \E res \in {"ok", "err", "terr"} :
        /\ res \in {"ok", "terr"} => ~SessionLost
        /\ SessionLost \/ ~opHang
        /\ op' = res
    /\ UNCHANGED <<cfgVars, srvVars, envVars, mainVars, spc, sret, retryVars,
                   calls, rpcKind, rpcResult, opHang, histVars>>

ServingNow == everServed /\ spc # "done"

\* The worker process exits (a crash, or its reaction to a signal).
WorkerExits ==
    /\ worker = "running"
    /\ worker' = "dead"
    /\ diedServing' = (diedServing \/ ServingNow)
    /\ UNCHANGED <<cfgVars, srvVars, reaped, listener, shutdown_request,
                   is_shut_down, mainVars, spc, sret, retryVars, callVars, toLog,
                   timeoutTaken, quotaTriggers, successes, termPath,
                   stopReturns, everServed>>

Next ==
    \/ MainThread
    \/ ServeThread
    \/ Clients
    \/ OperationEnds
    \/ WorkerExits
    \/ SignalArrives
    \/ SignalDefault

Spec == Init /\ [][Next]_vars

\* The threads keep running while they can; the environment owes nothing.
FairSpec ==
    /\ Spec
    /\ WF_vars(MainThread)
    /\ WF_vars(ServeThread)
    /\ WF_vars(OperationEnds)

\* ================================================================ claims
\* C1: when a convert call's timeout error reaches the RPC caller, the
\* converter session was disposed first, then the worker was terminated,
\* then the error was raised; the worker is gone and the supervisor's
\* handle is cleared.
C1_TimeoutTearsDownWorker ==
    (rpcKind = "convert" /\ rpcResult = "timeout") =>
        /\ toLog = <<"dispose", "terminate", "raise">>
        /\ conv = "disposed"
        /\ libreoffice_process = "None"
        /\ worker = "dead"

C1_Witness ==
    /\ rpcKind = "convert" /\ rpcResult = "timeout"
    /\ conversion_timeout # NoneInt /\ opHang
    /\ termPath \in TerminatePaths

\* C2: with conversionTimeout set, a compare call whose engine operation
\* never completes on its own does not stay blocked: the handler gets to the
\* timeout error (or the operation has ended after all).
CompareBlocked ==
    /\ rpcKind = "compare" /\ spc = "cp_exit"
    /\ op = "running" /\ opHang
    /\ conversion_timeout # NoneInt

C2_CompareBoundByTimeout ==
    CompareBlocked ~> (rpcResult = "timeout" \/ op # "running")

\* C3: whenever a call has taken the timeout path the intentional-exit flag
\* is set.
C3_TimeoutSetsIntentionalExit == timeoutTaken => intentional_exit

\* C4: with stop-after = N the quota path initiates the shutdown exactly
\* once, at the N-th successful call and not before, and never again; with
\* no stop-after it never does.  Initiating means: flag set, and the worker
\* terminated once stop_after() is through with the termination routine.
InQuotaRoutine == sret = "sa_ret"

C4_QuotaTriggersOnce ==
    /\ stop_after = NoneInt => quotaTriggers = 0
    /\ stop_after >= 1 =>
          quotaTriggers = (IF successes >= stop_after THEN 1 ELSE 0)
    /\ quotaTriggers >= 1 =>
          /\ intentional_exit
          /\ InQuotaRoutine \/ (libreoffice_process = "None" /\ worker = "dead")

C4_Witness ==
    /\ quotaTriggers = 1
    /\ successes = stop_after
    /\ calls = 2 /\ rpcKind = "convert" /\ rpcResult = "error"

\* C5: stop() is idempotent.  Once one run of stop() has returned, the
\* listener is shut down, the serve thread has finished and the worker is
\* gone; a run of stop() that begins after that is never about to raise,
\* does not enter the termination routine and changes none of that.
LaterRun == Top \in StopLabels /\ Head(stopBase) >= 1

StopEndState ==
    /\ xmlrcp_thread = "finished"
    /\ listener # "bound"
    /\ xmlrcp_server # "None" => is_shut_down
    /\ worker # "running"

C5_StopIdempotent ==
    /\ [](stopReturns >= 1 => StopEndState)
    /\ [](LaterRun =>
            /\ ~(Top = "st_join" /\ xmlrcp_thread = "created")
            /\ ~(Top = "st_poll" /\ libreoffice_process = "None")
            /\ ~(Top = "st_poll" /\ PollIsNone(reaped, LockHeld, worker)))
    /\ [][(LaterRun /\ Len(mstack') <= Len(mstack))
            => UNCHANGED <<xmlrcp_thread, xmlrcp_server, listener, is_shut_down,
                           libreoffice_process, worker, intentional_exit>>]_vars

C5_Witness == stopReturns >= 2 /\ raised = "none"

\* C6: in each connection phase the budget starts at 20, every failed
\* attempt strictly decreases it, and no attempt is made once it is <= 0:
\* at most 20 attempts, and exactly 20 (40 time units of sleep) when every
\* failure is a refusal.
Retrying == spc \in {"conv", "comp"}
RetryCounted == Retrying \/ exhausted # "none"

C6_RetryBudgetBounded ==
    /\ [](RetryCounted =>
            /\ attempts <= 20 - tries
            /\ tries <= 20
            /\ (tries = 0 => attempts = 20)
            /\ (exhausted # "none" => attempts <= 0)
            /\ (exhausted # "none" /\ nOther = 0 =>
                    tries = 20 /\ nRefused = 20 /\ slept = 40))
    /\ [][(Retrying /\ tries' = tries + 1) => attempts' < attempts]_vars
    /\ [][(Retrying /\ attempts <= 0) => tries' = tries]_vars

C6_Witness == exhausted = "conv" /\ nOther = 0 /\ tries = 20 /\ attempts = 0

\* C7: a refused attempt costs 1 and sleeps 2, any other failure costs 4 and
\* sleeps 5, in the Converter loop and in the Comparer loop alike; only
\* non-refused failures give up after exactly 5 attempts, and any mix runs
\* out after finitely many attempts.
C7_FailureCosts ==
    RetryCounted =>
        /\ tries = nRefused + nOther
        /\ attempts = 20 - nRefused - 4 * nOther
        /\ slept = 2 * nRefused + 5 * nOther
        /\ (exhausted # "none" /\ nRefused = 0 => tries = 5 /\ slept = 25)
        /\ (exhausted # "none" => nRefused + 4 * nOther >= 20)

C7_Witness == exhausted = "comp" /\ nRefused = 0 /\ tries = 5

\* C8: when either phase runs out of budget the startup is aborted as a
\* whole: the server is never published, the accept loop never entered, no
\* call handled; the thread runs the termination routine and ends, and by
\* then the worker is terminated, its handle cleared and the listener
\* closed.
C8_ExhaustionAbortsStartup ==
    exhausted # "none" =>
        /\ xmlrcp_server = "None"
        /\ ~everServed
        /\ calls = 0
        /\ spc \in RoutineLabels \cup {"exh_ret", "done", "gone"}
        /\ spc = "done" =>
                /\ libreoffice_process = "None"
                /\ worker = "dead"
                /\ xmlrcp_thread = "finished"
                /\ listener = "closed"

C8_Witness ==
    /\ exhausted = "comp" /\ conv = "live"
    /\ spc = "done" /\ termPath \in TerminatePaths


\* C9: when every connection attempt is refused until the Converter phase
\* runs out, main() returns exit code 2 and no listener is left bound.
RefusedToTheEnd == exhausted = "conv" /\ nOther = 0

C9_NeverListeningExits2 ==
    (exitCode # NoneInt /\ RefusedToTheEnd /\ raised = "none") =>
        (exitCode = 2 /\ listener # "bound")

\* C10: when the worker exits on its own while the service is serving and
\* the intentional-exit flag is not set (no signal, no stop-after, no
\* timeout), main() returns exit code 1.
C10_UnexpectedDeathExits1 ==
    (exitCode # NoneInt /\ diedServing /\ ~intentional_exit /\ ~timeoutTaken
        /\ signals = 0 /\ raised = "none") =>
        exitCode = 1

\* C11: when main() returns an exit code after a shutdown that was
\* initiated intentionally (a signal or the stop-after quota set the flag)
\* and a stop sequence has completed, the code is 0; and code 0 is returned
\* only with the intentional-exit flag set.
MainReturnsCode == exitCode = NoneInt /\ exitCode' # NoneInt /\ raised' = "none"

C11_ExitZeroIffIntentional ==
    [][MainReturnsCode =>
        /\ (intentional_exit /\ stopReturns >= 1) => exitCode' = 0
        /\ exitCode' = 0 => intentional_exit]_vars

\* C12: a signal received while the service is serving leads to the stopped
\* service: accept loop shut down, serve thread joined, worker gone, stop()
\* returned - whatever call is in flight and with or without a timeout.
SignalledWhileServing == Top = "sg_entry" /\ ServingNow

Stopped ==
    /\ is_shut_down
    /\ xmlrcp_thread = "finished"
    /\ worker # "running"
    /\ stopReturns >= 1

C12_SignalLeadsToStopped == SignalledWhileServing ~> Stopped

\* C13: the termination routine, entered by stop() with a handle on a
\* worker that has already exited, sends no signal and does nothing but
\* clear the handle: it returns from its look at the worker.
EntersOnExitedWorker ==
    /\ libreoffice_process # "None" /\ worker = "dead"
    /\ Top = "tp_poll" /\ mstack' # mstack /\ Len(mstack') <= Len(mstack)

ReturnsAtOnce ==
    /\ libreoffice_process' = "None"
    /\ termPath' = "already_dead"
    /\ mstack' = Tail(mstack)

C13_TerminationIdempotent == [][EntersOnExitedWorker => ReturnsAtOnce]_vars

\* C14: handling a signal never raises: neither its forwarding step nor its
\* stop() call ends in an exception, also when the worker was already
\* terminated and its handle cleared.
C14_SignalHandlerNeverRaises == raised \notin {"signal_handler", "stop"}

\* C15: when the engine operation of a convert or compare call fails with
\* an error of its own, the next step of the handler hands that error to
\* the caller and changes nothing else: worker, handle, flag, counter and
\* sessions stay as they are and the serve thread is back in its accept
\* loop.
OperationFailed ==
    /\ spc \in {"cv_wait", "cp_result"} /\ op \in {"err", "terr"}
    /\ spc' # spc

C15_EngineErrorIsScoped ==
    [][OperationFailed =>
        /\ rpcResult' = "error"
        /\ spc' = "loop"
        /\ UNCHANGED <<worker, libreoffice_process, intentional_exit,
                       number_of_requests, conv, comp, xmlrcp_server,
                       xmlrcp_thread, listener, termPath,
                       quotaTriggers, timeoutTaken, successes>>]_vars

\* C16: the Comparer loop runs only once the Converter session exists, and
\* the server is published, the accept loop entered and calls dispatched
\* only once both sessions exist.
Published ==
    \/ xmlrcp_server # "None"
    \/ everServed
    \/ calls > 0
    \/ spc \in {"publish", "enter", "loop"}

C16_StartupOrder ==
    /\ (spc = "comp" \/ comp # "None") => conv # "None"
    /\ Published => (conv # "None" /\ comp # "None")

C16_Witness == spc = "comp" /\ tries >= 1 /\ conv = "live" /\ comp = "None"

\* C17: whenever the top-level control flow has returned an exit code, the
\* serve thread has finished and was joined by stop(), and no call is in
\* flight.
C17_ExitAfterJoin ==
    (exitCode # NoneInt /\ raised = "none") =>
        /\ xmlrcp_thread = "finished"
        /\ spc = "done"
        /\ op = "none"
        /\ stopReturns >= 1

\* C18: in every terminal state of the front-end the worker it spawned is
\* no longer alive, whatever ended the run.  The terminal states: the main
\* thread, with no signal handler running on it, is past the stop() of
\* start() and about to return 2, is past the final stop() of main(), has
\* returned, has ended with an exception, or the process has ended.
Terminal ==
    /\ Len(mstack) = 1
    /\ Top \in {"m_ret2", "m_probe", "m_final", "crashed", "m_abandon", "exited"}

C18_WorkerNotLeaked == Terminal => worker # "running"

C18_Witness ==
    /\ Terminal /\ Top = "m_ret2"
    /\ stopReturns = 1 /\ signals = 0
    /\ termPath \in {"graceful", "forced"}
    /\ worker = "dead" /\ libreoffice_process = "None"

\* C19: with stop-after = N the request counter never exceeds N, counts
\* exactly the convert/compare calls that gave a result, and once it is N
\* the shutdown has been initiated: the flag is set and the worker is
\* being terminated or gone.  Judged once a call has been counted.
C19_CounterBounded ==
    (stop_after # NoneInt /\ number_of_requests >= 1) =>
        /\ number_of_requests <= stop_after
        /\ number_of_requests = successes
        /\ number_of_requests = stop_after =>
                /\ intentional_exit
                /\ quotaTriggers = 1
                /\ spc \in RoutineLabels \/ worker = "dead"

\* C20: an info call, successful or not, changes neither the request
\* counter, the intentional-exit flag, the worker and its handle, the
\* sessions nor the serving state, and takes no part in the timeout or
\* stop-after paths: its dispatch and its answer leave all of that alone
\* and the serve thread is back in its accept loop after the answer.
InfoStep ==
    \/ spc = "loop" /\ spc' = "in_info"
    \/ spc = "in_info" /\ spc' \notin {"in_info", "gone"}

C20_InfoIsPureRead ==
    [][InfoStep =>
        /\ rpcKind' = "info"
        /\ spc' = "in_info" \/ (spc' = "loop" /\ rpcResult' \in {"ok", "error"})
        /\ UNCHANGED <<number_of_requests, intentional_exit, libreoffice_process,
                       worker, reaped, conv, comp, sret, xmlrcp_server,
                       xmlrcp_thread, listener, shutdown_request, is_shut_down,
                       op, timeoutTaken, quotaTriggers, termPath,
                       successes>>]_vars

C20_Witness ==
    /\ rpcKind = "info" /\ rpcResult = "ok"
    /\ stop_after = 1 /\ calls = 2 /\ number_of_requests = 0

====
